---------------------------- MODULE Spec2Model ----------------------------
(***************************************************************************)
(* A model of utilities.py: the CoNLL reader and writer, the EpochStats    *)
(* accumulator and the classification report printer.                      *)
(*                                                                         *)
(* A text is a sequence of one-character strings, so that a file, a line,  *)
(* a field and a token are all sequences of characters and writing and     *)
(* reading are modelled character by character.  Python's 0-based list     *)
(* positions are kept as they are in the source; a Python list l is a      *)
(* sequence s with l[i] = s[i + 1].                                        *)
(*                                                                         *)
(* The return value of the last call is kept in `result`, its name in      *)
(* `op` and its arguments in `args`.  A call that raises leaves            *)
(* [status |-> <the exception's name>] in `result`.                        *)
(***************************************************************************)
EXTENDS Integers, Sequences, FiniteSets, TLC

VARIABLES
    file,        \* the text of the corpus file on disk
    data,        \* the in-memory Corpus Dataset handed to write_conll
    sizes,       \* EpochStats.sizes
    losses,      \* EpochStats.losses
    ner_losses,  \* EpochStats.ner_losses
    dep_losses,  \* EpochStats.dep_losses
    probs,       \* EpochStats.probs
    preds,       \* EpochStats.preds
    golds,       \* EpochStats.golds
    report,      \* the Classification Report handed to printcr
    op,          \* the name of the last call
    args,        \* the arguments of the last call
    result       \* what the last call returned, or the exception it raised

record == <<sizes, losses, ner_losses, dep_losses, probs, preds, golds>>
vars == <<file, data, sizes, losses, ner_losses, dep_losses, probs, preds, golds,
          report, op, args, result>>

----------------------------------------------------------------------------
(* Bounds of the model.                                                    *)

MaxFileLen == 5    \* characters of a corpus file that is read
MaxSamples == 2    \* samples of a dataset that is written
MaxTokens == 2     \* tokens of a sample of a dataset that is written
MaxCalls == 2      \* recording calls (loss_step, step) on one accumulator
MaxRecorded == 2   \* samples recorded by step on one accumulator

----------------------------------------------------------------------------
(* Generic helpers.                                                        *)

Min(a, b) == IF a < b THEN a ELSE b

Ok(v) == [status |-> "ok", value |-> v]
Raised(e) == [status |-> e, value |-> <<>>]

RECURSIVE SeqsOver(_, _)
\* All sequences over S of length at most n.
SeqsOver(S, n) ==
    IF n = 0 THEN {<<>>}
    ELSE LET shorter == SeqsOver(S, n - 1)
         IN  shorter \cup {Append(s, x) : s \in {t \in shorter : Len(t) = n - 1}, x \in S}

RECURSIVE SumSeq(_)
SumSeq(s) == IF s = <<>> THEN 0 ELSE Head(s) + SumSeq(Tail(s))

----------------------------------------------------------------------------
(* CoNLL Corpus I/O: read_conll.                                           *)

Newline == "\n"
Tab == "\t"

\* str.strip() removes these characters from both ends of a field.
IsSpace(c) == c \in {" ", "\t", "\n"}

\* field.strip() == ''
IsBlank(field) == \A i \in DOMAIN field : IsSpace(field[i])

RECURSIVE SplitOn(_, _)
\* The pieces of text between occurrences of sep; always at least one piece.
SplitOn(text, sep) ==
    IF text = <<>> THEN << <<>> >>
    ELSE LET rest == SplitOn(Tail(text), sep)
         IN  IF Head(text) = sep
             THEN << <<>> >> \o rest
             ELSE << <<Head(text)>> \o Head(rest) >> \o Tail(rest)

\* The lines a text file yields when iterated: the text cut after each
\* newline, a last line without a newline included when it is not empty.
FileLines(text) ==
    LET pieces == SplitOn(text, Newline)
    IN  IF pieces[Len(pieces)] = <<>> THEN SubSeq(pieces, 1, Len(pieces) - 1)
        ELSE pieces

\* One row of csv.reader(fp, delimiter=delimiter, quoting=csv.QUOTE_NONE):
\* an empty line is the empty list, any other line is cut at each delimiter.
CsvRow(line, delimiter) ==
    IF line = <<>> THEN <<>> ELSE SplitOn(line, delimiter)

CsvReader(text, delimiter) ==
    LET lines == FileLines(text)
    IN  [i \in DOMAIN lines |-> CsvRow(lines[i], delimiter)]

\* is_empty_line without the strip(): only fields that are empty count.
is_empty_line_NoStrip(line_pack) == \A i \in DOMAIN line_pack : line_pack[i] = <<>>

is_empty_line(line_pack) == \A i \in DOMAIN line_pack : IsBlank(line_pack[i])

RECURSIVE GroupNonEmpty(_, _)
\* groupby(reader, is_empty_line), keeping the packs whose key is False:
\* the maximal runs of consecutive rows that are not empty lines.
\* cur is the run being collected.
GroupNonEmpty(rows, cur) ==
    IF rows = <<>> THEN (IF cur = <<>> THEN <<>> ELSE <<cur>>)
    ELSE IF is_empty_line(Head(rows))
         THEN (IF cur = <<>> THEN <<>> ELSE <<cur>>) \o GroupNonEmpty(Tail(rows), <<>>)
         ELSE GroupNonEmpty(Tail(rows), Append(cur, Head(rows)))

RECURSIVE MinLen(_)
\* The length of the shortest element of a non-empty sequence of sequences.
MinLen(seqs) ==
    IF Len(seqs) = 1 THEN Len(seqs[1])
    ELSE Min(Len(Head(seqs)), MinLen(Tail(seqs)))

\* zip(*seqs) as a list of lists: element j holds the j-th element of every
\* sequence, and there are as many as the shortest sequence has elements
\* (zip stops at the shortest argument); zip() of nothing is empty.
Zip(seqs) ==
    IF seqs = <<>> THEN <<>>
    ELSE [j \in 1..MinLen(seqs) |-> [k \in DOMAIN seqs |-> seqs[k][j]]]

\* data after the loop: one entry per non-empty pack, its rows transposed.
ReadBlocks(text, delimiter) ==
    LET packs == GroupNonEmpty(CsvReader(text, delimiter), <<>>)
    IN  [k \in DOMAIN packs |-> Zip(packs[k])]

\* A Python dict is kept with its key order: keys is the sequence of its
\* keys in insertion order and at maps each key to its value.
Dict(keys, at) == [keys |-> keys, at |-> at]
KeySet(d) == {d.keys[i] : i \in DOMAIN d.keys}

\* read_conll.  columns is the dict from column name to 0-based position.
read_conll(text, columns, delimiter) ==
    LET zipped == Zip(ReadBlocks(text, delimiter))
    IN  IF \E c \in KeySet(columns) : columns.at[c] >= Len(zipped)
        THEN Raised("IndexError")
        ELSE Ok(Dict(columns.keys, [c \in KeySet(columns) |-> zipped[columns.at[c] + 1]]))

----------------------------------------------------------------------------
(* CoNLL Corpus I/O: write_conll.                                          *)

RECURSIVE Join(_, _)
\* delimiter.join(row)
Join(row, delimiter) ==
    IF row = <<>> THEN <<>>
    ELSE IF Len(row) = 1 THEN row[1]
    ELSE row[1] \o <<delimiter>> \o Join(Tail(row), delimiter)

\* row = [data[col][sample_i][token_i] for col in colnames], or the
\* exception the first failing lookup raises.  sample_i, token_i are 0-based.
WriteRow(d, colnames, sample_i, token_i) ==
    LET bad(col) == \/ col \notin KeySet(d)
                    \/ sample_i >= Len(d.at[col])
                    \/ token_i >= Len(d.at[col][sample_i + 1])
        firstBad == IF \E i \in DOMAIN colnames : bad(colnames[i])
                    THEN CHOOSE i \in DOMAIN colnames :
                            /\ bad(colnames[i])
                            /\ \A j \in 1..(i - 1) : ~bad(colnames[j])
                    ELSE 0
    IN  IF firstBad = 0
        THEN Ok([i \in DOMAIN colnames |-> d.at[colnames[i]][sample_i + 1][token_i + 1]])
        ELSE IF colnames[firstBad] \notin KeySet(d) THEN Raised("KeyError")
        ELSE Raised("IndexError")

RECURSIVE WriteFrom(_, _, _, _, _, _)
\* The two loops of write_conll from (sample_i, token_i) on, text being what
\* has been written so far: the final text, and the exception if one stopped
\* the loops.
WriteFrom(d, colnames, delimiter, sample_i, token_i, text) ==
    LET any_key == colnames[1]
    IN  IF sample_i >= Len(d.at[any_key]) THEN [status |-> "ok", text |-> text]
        ELSE IF token_i >= Len(d.at[any_key][sample_i + 1])
        THEN WriteFrom(d, colnames, delimiter, sample_i + 1, 0, text \o <<Newline>>)
        ELSE LET row == WriteRow(d, colnames, sample_i, token_i)
             IN  IF row.status # "ok" THEN [status |-> row.status, text |-> text]
                 ELSE WriteFrom(d, colnames, delimiter, sample_i, token_i + 1,
                                text \o Join(row.value, delimiter) \o <<Newline>>)

NoColnames == <<"None">>

\* write_conll: the text the file holds afterwards and the exception, if any.
\* colnames = NoColnames stands for the default colnames=None.  The file is
\* opened, and so created or emptied, only after any_key has been looked up
\* in colnames: opened tells whether it was.  The directories that makedirs
\* creates are not part of the model.
write_conll(d, colnames, delimiter) ==
    LET names == IF colnames = NoColnames THEN d.keys ELSE colnames
    IN  IF names = <<>> THEN [status |-> "IndexError", text |-> <<>>, opened |-> FALSE]
        ELSE IF names[1] \notin KeySet(d)
        THEN [status |-> "KeyError", text |-> <<>>, opened |-> TRUE]
        ELSE [opened |-> TRUE] @@ WriteFrom(d, names, delimiter, 0, 0, <<>>)

----------------------------------------------------------------------------
(* CoNLL Corpus I/O: the calls, and the inputs they are given.             *)

Chars == {"a", "b", " ", "\t", "\n"}

\* The corpus files of at most MaxFileLen characters.
Files == SeqsOver(Chars, MaxFileLen)

\* The column specs read_conll is called with.
ColumnSpecs ==
    { Dict(<<"tok">>, [c \in {"tok"} |-> 0]),
      Dict(<<"tok", "tag">>, [c \in {"tok", "tag"} |-> IF c = "tok" THEN 0 ELSE 1]),
      Dict(<<"tag", "tok">>, [c \in {"tok", "tag"} |-> IF c = "tag" THEN 0 ELSE 1]) }

\* The column spec that maps each written column name to its written position.
PositionsOf(names) ==
    Dict(names, [c \in {names[i] : i \in DOMAIN names} |->
                    (CHOOSE i \in DOMAIN names : names[i] = c) - 1])

\* The token values of the two columns of the datasets that are written:
\* plain tokens, the empty token, a blank token and a token holding the
\* delimiter.
TokTokens == { <<"a">>, <<>>, <<"\t">> }
TagTokens == { <<"b">>, <<" ">> }

\* The datasets with columns tok and tag whose columns have the same number
\* of samples and, in every sample, the same number of tokens: each is built
\* from a sequence of samples, a sample being a sequence of (tok, tag) rows.
DatasetOf(samples) ==
    Dict(<<"tok", "tag">>,
         [c \in {"tok", "tag"} |->
            [s \in DOMAIN samples |->
                [t \in DOMAIN samples[s] |->
                    samples[s][t][IF c = "tok" THEN 1 ELSE 2]]]])

Datasets ==
    { DatasetOf(samples) :
        samples \in SeqsOver(SeqsOver(TokTokens \X TagTokens, MaxTokens), MaxSamples) }

ColnameChoices == { NoColnames, <<"tok", "tag">>, <<"tag", "tok">>, <<"tok">> }

NoFile == [exists |-> FALSE, text |-> <<>>]
FileWith(text) == [exists |-> TRUE, text |-> text]

\* write_conll(filename, data, colnames) with the default delimiter.
WriteConll(colnames) ==
    LET w == write_conll(data, colnames, Tab)
    IN  /\ file' = (IF w.opened THEN FileWith(w.text) ELSE file)
        /\ op' = "write_conll"
        /\ args' = [colnames |-> colnames]
        /\ result' = (IF w.status = "ok" THEN Ok(<<>>) ELSE Raised(w.status))
        /\ UNCHANGED <<data, record, report>>

\* read_conll(filename, columns) with the default delimiter.
ReadConll(columns) ==
    /\ op' = "read_conll"
    /\ args' = [columns |-> columns]
    /\ result' = (IF file.exists THEN read_conll(file.text, columns, Tab)
                  ELSE Raised("FileNotFoundError"))
    /\ UNCHANGED <<file, data, record, report>>

NoDict == Dict(<<>>, <<>>)
NoCall == [status |-> "none", value |-> <<>>]

\* The parts of the state a specification of one component leaves alone.
IdleStats ==
    /\ sizes = <<>> /\ losses = <<>> /\ ner_losses = <<>> /\ dep_losses = <<>>
    /\ probs = <<>> /\ preds = <<>> /\ golds = <<>>
IdleCalls == op = "init" /\ args = <<>> /\ result = NoCall

\* Reading corpus files: any file of the bounded set is on disk.
InitRead ==
    /\ file \in {FileWith(text) : text \in Files}
    /\ data = NoDict /\ report = NoDict
    /\ IdleStats /\ IdleCalls

NextRead == \E columns \in ColumnSpecs : ReadConll(columns)

SpecRead == InitRead /\ [][NextRead]_vars

\* Writing a dataset and reading it back.
InitConll ==
    /\ file = NoFile
    /\ data \in Datasets /\ report = NoDict
    /\ IdleStats /\ IdleCalls

NextConll ==
    \/ \E colnames \in ColnameChoices : WriteConll(colnames)
    \/ \E colnames \in ColnameChoices :
          ReadConll(PositionsOf(IF colnames = NoColnames THEN data.keys ELSE colnames))

SpecConll == InitConll /\ [][NextConll]_vars

----------------------------------------------------------------------------
(* What the corpus format says of a file, stated on its lines and not on   *)
(* the reader's steps.                                                     *)

\* A line that holds only delimiters and whitespace (or nothing at all).
OnlyBlanks(line, delimiter) ==
    \A i \in DOMAIN line : line[i] = delimiter \/ line[i] = " " \/ line[i] = "\t"

\* The positions of the lines of a file that are rows.
RowLines(text, delimiter) ==
    LET lines == FileLines(text)
    IN  {i \in DOMAIN lines : ~OnlyBlanks(lines[i], delimiter)}

\* The rows that start a block: rows with no row on the line before.
BlockStarts(text, delimiter) ==
    {i \in RowLines(text, delimiter) : (i - 1) \notin RowLines(text, delimiter)}

\* The number of the block that the row on line i is in.
BlockOf(text, delimiter, i) ==
    Cardinality({j \in BlockStarts(text, delimiter) : j <= i})

\* The lines of the k-th block, in order.
RECURSIVE SortedSeq(_)
SortedSeq(S) ==
    IF S = {} THEN <<>>
    ELSE LET m == CHOOSE x \in S : \A y \in S : x <= y
         IN  <<m>> \o SortedSeq(S \ {m})

BlockLines(text, delimiter, k) ==
    SortedSeq({i \in RowLines(text, delimiter) : BlockOf(text, delimiter, i) = k})

\* The fields of line i.
FieldsOf(text, delimiter, i) == SplitOn(FileLines(text)[i], delimiter)

\* Every row has a field at every position the column spec asks for.
HasColumns(text, columns, delimiter) ==
    \A i \in RowLines(text, delimiter) : \A c \in KeySet(columns) :
        columns.at[c] < Len(FieldsOf(text, delimiter, i))

\* Some block holds two rows with different numbers of fields.
HasRaggedBlock(text, delimiter) ==
    \E i, j \in RowLines(text, delimiter) :
        /\ BlockOf(text, delimiter, i) = BlockOf(text, delimiter, j)
        /\ Len(FieldsOf(text, delimiter, i)) # Len(FieldsOf(text, delimiter, j))

\* What column c of a file with N blocks should read as: N samples, the k-th
\* holding the k-th block's values of the column in row order.
ExpectedColumn(text, columns, delimiter, c) ==
    [k \in 1..Cardinality(BlockStarts(text, delimiter)) |->
        LET rows == BlockLines(text, delimiter, k)
        IN  [r \in DOMAIN rows |-> FieldsOf(text, delimiter, rows[r])[columns.at[c] + 1]]]

RECURSIVE Flatten(_)
Flatten(nested) == IF nested = <<>> THEN <<>> ELSE Head(nested) \o Flatten(Tail(nested))

\* The number of the sample that holds the m-th token of a column.
SampleOfToken(samples, m) ==
    CHOOSE k \in DOMAIN samples :
        /\ Len(Flatten(SubSeq(samples, 1, k))) >= m
        /\ Len(Flatten(SubSeq(samples, 1, k - 1))) < m

\* The place of row line i among the rows of the file: 1 for the first row.
RowNumber(text, delimiter, i) ==
    Cardinality({j \in RowLines(text, delimiter) : j <= i})

Reading == op = "read_conll" /\ file.exists
ReadOk == Reading /\ result.status = "ok"

----------------------------------------------------------------------------
(* C4: for a file of N non-empty blocks separated by blank lines, for      *)
(* every N >= 0, read_conll returns a dataset in which every requested     *)
(* column holds exactly N samples, the k-th sample being the k-th block's  *)
(* values for that column in row order.  Stated for the files whose rows   *)
(* all have the requested columns.                                         *)
C4_ReadReturnsBlocks ==
    (Reading /\ HasColumns(file.text, args.columns, Tab)) =>
        /\ result.status = "ok"
        /\ \A c \in KeySet(args.columns) :
              result.value.at[c] = ExpectedColumn(file.text, args.columns, Tab, c)

\* The same for the files that hold at least one block.
C4_ReadReturnsBlocksNonEmpty ==
    (Reading /\ HasColumns(file.text, args.columns, Tab)
             /\ BlockStarts(file.text, Tab) # {}) =>
        /\ result.status = "ok"
        /\ \A c \in KeySet(args.columns) :
              result.value.at[c] = ExpectedColumn(file.text, args.columns, Tab, c)

(* C6: whenever a block of the file holds rows with different numbers of   *)
(* fields, read_conll raises an index error and returns no dataset.        *)
C6_RaggedRaises ==
    (Reading /\ HasRaggedBlock(file.text, Tab)) => result.status = "IndexError"

(* C9: a line that holds only delimiters and whitespace is an empty line:  *)
(* it contributes no token to any column (each column holds one token per  *)
(* row, in row order), and the nearest rows before and after it are in two *)
(* different samples.                                                      *)
C9_BlankLineEndsSample ==
    ReadOk =>
        \A c \in KeySet(args.columns) :
            LET lines == FileLines(file.text)
                rows == RowLines(file.text, Tab)
                col == result.value.at[c]
            IN  /\ Len(Flatten(col)) = Cardinality(rows)
                /\ \A i \in rows :
                      Flatten(col)[RowNumber(file.text, Tab, i)]
                          = FieldsOf(file.text, Tab, i)[args.columns.at[c] + 1]
                /\ \A b \in DOMAIN lines : \A i, j \in rows :
                      (OnlyBlanks(lines[b], Tab) /\ i < b /\ b < j) =>
                          SampleOfToken(col, RowNumber(file.text, Tab, i))
                              # SampleOfToken(col, RowNumber(file.text, Tab, j))

\* A file is read in which a line of delimiters and whitespace, not an empty
\* one, stands between two rows.
C9_Witness ==
    /\ ReadOk
    /\ \E b \in DOMAIN FileLines(file.text) :
          /\ FileLines(file.text)[b] # <<>>
          /\ OnlyBlanks(FileLines(file.text)[b], Tab)
          /\ \E i, j \in RowLines(file.text, Tab) : i < b /\ b < j

----------------------------------------------------------------------------
(* The round trip of a dataset through a file.                             *)

WrittenNames(colnames) == IF colnames = NoColnames THEN data.keys ELSE colnames

\* The file on disk is what write_conll made of data under colnames, and it
\* has been read back under the matching column spec.
ReadBack(colnames) ==
    /\ Reading
    /\ write_conll(data, colnames, Tab).status = "ok"
    /\ file = FileWith(write_conll(data, colnames, Tab).text)
    /\ args.columns = PositionsOf(WrittenNames(colnames))

(* C1: writing a dataset whose columns have consistent token counts with   *)
(* write_conll and reading the file back with read_conll, the column spec  *)
(* mapping each written column name to its written position, returns the   *)
(* original token values: the same samples and, in each, the same tokens   *)
(* in the same order.                                                      *)
C1_RoundTrip ==
    \A colnames \in ColnameChoices :
        ReadBack(colnames) =>
            /\ result.status = "ok"
            /\ \A i \in DOMAIN WrittenNames(colnames) :
                  LET c == WrittenNames(colnames)[i]
                  IN  result.value.at[c] = data.at[c]

\* A dataset the file format can hold under the written columns: every
\* sample has a token, every row has a written token that is not blank, and
\* no token holds the delimiter or a newline.
Representable(colnames) ==
    LET names == WrittenNames(colnames)
        first == data.at[names[1]]
    IN  /\ \A s \in DOMAIN first :
              /\ first[s] # <<>>
              /\ \A t \in DOMAIN first[s] :
                    \E i \in DOMAIN names : ~IsBlank(data.at[names[i]][s][t])
        /\ \A i \in DOMAIN names : \A s \in DOMAIN first : \A t \in DOMAIN first[s] :
              \A k \in DOMAIN data.at[names[i]][s][t] :
                  data.at[names[i]][s][t][k] \notin {Tab, Newline}

\* The round trip of the representable datasets that hold a sample.
C1_RoundTripRepresentable ==
    \A colnames \in ColnameChoices :
        (ReadBack(colnames) /\ Representable(colnames)
            /\ data.at[WrittenNames(colnames)[1]] # <<>>) =>
            /\ result.status = "ok"
            /\ \A i \in DOMAIN WrittenNames(colnames) :
                  LET c == WrittenNames(colnames)[i]
                  IN  result.value.at[c] = data.at[c]

\* The round trip of the representable datasets, the empty one among them.
C1_RoundTripOfEmpty ==
    \A colnames \in ColnameChoices :
        (ReadBack(colnames) /\ Representable(colnames)) =>
            /\ result.status = "ok"
            /\ \A i \in DOMAIN WrittenNames(colnames) :
                  LET c == WrittenNames(colnames)[i]
                  IN  result.value.at[c] = data.at[c]

----------------------------------------------------------------------------
(* Epoch Statistics Accumulator: EpochStats.                               *)
(*                                                                         *)
(* An element of preds, golds and probs is either a list (what step        *)
(* appends: one list per sample) or a bare number (the flattened storage   *)
(* of older runs); the two are told apart by `kind`.  A loss is an         *)
(* integer and a mean is the fraction num / den, or nan.                   *)

ListOf(items) == [kind |-> "list", items |-> items]
Bare(x) == [kind |-> "bare", items |-> <<x>>]

\* loss_step: the four appends.
loss_step(loss, ner_loss, dep_loss, batch_size) ==
    /\ losses' = Append(losses, loss)
    /\ ner_losses' = Append(ner_losses, ner_loss)
    /\ dep_losses' = Append(dep_losses, dep_loss)
    /\ sizes' = Append(sizes, batch_size)

MaxOf(vec) == CHOOSE x \in {vec[i] : i \in DOMAIN vec} : \A i \in DOMAIN vec : vec[i] <= x

\* The 0-based position of the first greatest score: the class that
\* scores.max(dim=2) returns for one token.
ArgMax(vec) == (CHOOSE i \in DOMAIN vec :
                    /\ vec[i] = MaxOf(vec)
                    /\ \A j \in 1..(i - 1) : vec[j] # MaxOf(vec)) - 1

RECURSIVE Masked(_, _)
\* values[mask == 1]: the values at the positions where the mask is 1, in order.
Masked(values, mask) ==
    IF values = <<>> THEN <<>>
    ELSE (IF Head(mask) = 1 THEN <<Head(values)>> ELSE <<>>) \o Masked(Tail(values), Tail(mask))

\* A batch is a sequence of samples of the same length, a sample a sequence
\* of tokens, a token its class scores, its gold class and its mask bit.
MaskOf(sample) == [t \in DOMAIN sample |-> sample[t].mask]
prob_i(sample) == ListOf(Masked([t \in DOMAIN sample |-> MaxOf(sample[t].scores)], MaskOf(sample)))
pred_i(sample) == ListOf(Masked([t \in DOMAIN sample |-> ArgMax(sample[t].scores)], MaskOf(sample)))
gold_i(sample) == ListOf(Masked([t \in DOMAIN sample |-> sample[t].target], MaskOf(sample)))

\* step with extend in place of append: one entry per token.
StepPreds_Extend(stored, batch) ==
    stored \o Flatten([i \in DOMAIN batch |->
                          [k \in DOMAIN pred_i(batch[i]).items |-> Bare(pred_i(batch[i]).items[k])]])

\* The appends of the loop of step: one entry per sample, in sample order.
StepPreds(stored, batch) == stored \o [i \in DOMAIN batch |-> pred_i(batch[i])]
StepGolds(stored, batch) == stored \o [i \in DOMAIN batch |-> gold_i(batch[i])]
StepProbs(stored, batch) == stored \o [i \in DOMAIN batch |-> prob_i(batch[i])]

\* step's batch_size: len(scores).
StepSize(batch) == Len(batch)

\* [l for l, s in zip(losses, sizes) for _ in range(s)]
RECURSIVE Repeated(_, _)
Repeated(ls, ss) ==
    IF ls = <<>> \/ ss = <<>> THEN <<>>
    ELSE [k \in 1..(IF Head(ss) > 0 THEN Head(ss) ELSE 0) |-> Head(ls)]
            \o Repeated(Tail(ls), Tail(ss))

NaN == [nan |-> TRUE, num |-> 0, den |-> 1]

\* np.mean: nan (and a warning) for an empty list.
Mean(values) ==
    IF values = <<>> THEN NaN
    ELSE [nan |-> FALSE, num |-> SumSeq(values), den |-> Len(values)]

MinOf(vec) == CHOOSE x \in {vec[i] : i \in DOMAIN vec} : \A i \in DOMAIN vec : x <= vec[i]

\* The list loss() selects.
SelectLosses(loss_type) ==
    IF loss_type = "ner" THEN ner_losses
    ELSE IF loss_type = "dep" THEN dep_losses
    ELSE losses

\* EpochStats.loss: np.mean of the repeated losses, then np.min and np.max of
\* the losses, which raise ValueError on an empty list.
LossValue(loss_type) ==
    LET selected == SelectLosses(loss_type)
    IN  IF selected = <<>> THEN Raised("ValueError")
        ELSE Ok([mean |-> Mean(Repeated(selected, sizes)),
                 min |-> MinOf(selected),
                 max |-> MaxOf(selected)])

\* index2label[j] for a number j: a list takes 0 .. len-1 and, counted from
\* the end, -len .. -1; a dict takes its keys.
Lookup(index2label, j) ==
    IF index2label.kind = "list"
    THEN LET n == Len(index2label.at)
         IN  IF 0 <= j /\ j < n THEN Ok(index2label.at[j + 1])
             ELSE IF -n <= j /\ j < 0 THEN Ok(index2label.at[n + j + 1])
             ELSE Raised("IndexError")
    ELSE IF j \in DOMAIN index2label.at THEN Ok(index2label.at[j])
         ELSE Raised("KeyError")

RECURSIVE MapIds(_, _)
\* [index2label[j] for j in ids], or the first exception.
MapIds(index2label, ids) ==
    IF ids = <<>> THEN Ok(<<>>)
    ELSE LET first == Lookup(index2label, Head(ids))
         IN  IF first.status # "ok" THEN first
             ELSE LET rest == MapIds(index2label, Tail(ids))
                  IN  IF rest.status # "ok" THEN rest
                      ELSE Ok(<<first.value>> \o rest.value)

RECURSIVE MapNested(_, _)
\* [[index2label[j] for j in i] for i in stored]: iterating a bare number
\* raises TypeError.
MapNested(index2label, stored) ==
    IF stored = <<>> THEN Ok(<<>>)
    ELSE LET first == IF Head(stored).kind = "bare" THEN Raised("TypeError")
                      ELSE MapIds(index2label, Head(stored).items)
         IN  IF first.status # "ok" THEN first
             ELSE LET rest == MapNested(index2label, Tail(stored))
                  IN  IF rest.status # "ok" THEN rest
                      ELSE Ok(<<ListOf(first.value)>> \o rest.value)

RECURSIVE MapFlat(_, _)
\* [index2label[i] for i in stored]: a list is no index of a list and no key
\* of a dict, TypeError.
MapFlat(index2label, stored) ==
    IF stored = <<>> THEN Ok(<<>>)
    ELSE LET first == IF Head(stored).kind = "list" THEN Raised("TypeError")
                      ELSE Lookup(index2label, Head(stored).items[1])
         IN  IF first.status # "ok" THEN first
             ELSE LET rest == MapFlat(index2label, Tail(stored))
                  IN  IF rest.status # "ok" THEN rest
                      ELSE Ok(<<Bare(first.value)>> \o rest.value)

\* The try block of _map_to_labels: golds, then preds.
TryNested(index2label) ==
    LET g == MapNested(index2label, golds)
    IN  IF g.status # "ok" THEN g
        ELSE LET p == MapNested(index2label, preds)
             IN  IF p.status # "ok" THEN p
                 ELSE [status |-> "ok", value |-> [golds |-> g.value, preds |-> p.value]]

\* The except TypeError block of _map_to_labels.
Fallback(index2label) ==
    LET g == MapFlat(index2label, golds)
    IN  IF g.status # "ok" THEN g
        ELSE LET p == MapFlat(index2label, preds)
             IN  IF p.status # "ok" THEN p
                 ELSE [status |-> "ok", value |-> [golds |-> g.value, preds |-> p.value]]

\* _map_to_labels without the except block.
map_to_labels_NoFallback(index2label) == [fallback |-> FALSE] @@ TryNested(index2label)

\* _map_to_labels: (golds, preds) as labels, or the exception that leaves it.
\* fallback tells whether the except block ran.
map_to_labels(index2label) ==
    LET tried == TryNested(index2label)
    IN  IF tried.status = "TypeError"
        THEN [fallback |-> TRUE] @@ Fallback(index2label)
        ELSE [fallback |-> FALSE] @@ tried

----------------------------------------------------------------------------
(* Epoch Statistics Accumulator: the calls, and the inputs they are given. *)

Token(scores, target, mask) == [scores |-> scores, target |-> target, mask |-> mask]

\* The samples of a batch: two tokens each, two classes.  In turn: both
\* tokens kept, a tie of the scores at the second; padding at the end;
\* a masked token at the front; everything masked.
SampleRows ==
    { << Token(<<1, 2>>, 1, 1), Token(<<2, 2>>, 0, 1) >>,
      << Token(<<3, 1>>, 1, 1), Token(<<1, 1>>, 0, 0) >>,
      << Token(<<1, 3>>, 1, 0), Token(<<1, 2>>, 0, 1) >>,
      << Token(<<1, 1>>, 0, 0), Token(<<1, 1>>, 0, 0) >> }

\* (loss, ner_loss, dep_loss) of a batch.
LossTriples == { <<3, 1, 2>>, <<5, 4, 1>> }

\* The batch sizes loss_step is called with directly.
SizeVals == {0, 1, 2}

LossKinds == {"", "ner", "dep", "total"}

\* index2label: a list, a dict, and a list too short for class 1.
LabelMaps ==
    { [kind |-> "list", at |-> <<"O", "B-PER">>],
      [kind |-> "dict", at |-> [j \in {0, 1} |-> IF j = 0 THEN "O" ELSE "B-PER"]],
      [kind |-> "list", at |-> <<"O">>] }

\* A call of loss_step from outside.
LossStep(loss, ner_loss, dep_loss, batch_size) ==
    /\ Len(sizes) < MaxCalls
    /\ loss_step(loss, ner_loss, dep_loss, batch_size)
    /\ op' = "loss_step"
    /\ args' = [loss |-> loss, ner_loss |-> ner_loss, dep_loss |-> dep_loss,
                batch_size |-> batch_size]
    /\ result' = Ok(<<>>)
    /\ UNCHANGED <<file, data, report, probs, preds, golds>>

\* step(scores, target, mask, loss, ner_loss, dep_loss).
Step(batch, loss, ner_loss, dep_loss) ==
    /\ Len(sizes) < MaxCalls
    /\ Len(preds) + Len(batch) <= MaxRecorded
    /\ loss_step(loss, ner_loss, dep_loss, StepSize(batch))
    /\ preds' = StepPreds(preds, batch)
    /\ golds' = StepGolds(golds, batch)
    /\ probs' = StepProbs(probs, batch)
    /\ op' = "step"
    /\ args' = [batch |-> batch, loss |-> loss, ner_loss |-> ner_loss,
                dep_loss |-> dep_loss]
    /\ result' = Ok(<<>>)
    /\ UNCHANGED <<file, data, report>>

RECURSIVE Sorted(_)
\* list.sort(): the numbers in ascending order.
Sorted(values) ==
    IF values = <<>> THEN <<>>
    ELSE LET m == MinOf(values)
             at == CHOOSE i \in DOMAIN values : values[i] = m
         IN  <<m>> \o Sorted(SubSeq(values, 1, at - 1) \o SubSeq(values, at + 1, Len(values)))

\* loss(loss_type) that sorts the selected list in place to find its ends.
Loss_SortsInPlace(loss_type) ==
    /\ op' = "loss"
    /\ args' = [loss_type |-> loss_type]
    /\ result' = LossValue(loss_type)
    /\ losses' = (IF loss_type \in {"ner", "dep"} THEN losses ELSE Sorted(losses))
    /\ ner_losses' = (IF loss_type = "ner" THEN Sorted(ner_losses) ELSE ner_losses)
    /\ dep_losses' = (IF loss_type = "dep" THEN Sorted(dep_losses) ELSE dep_losses)
    /\ UNCHANGED <<file, data, report, sizes, probs, preds, golds>>

\* loss(loss_type).
Loss(loss_type) ==
    /\ op' = "loss"
    /\ args' = [loss_type |-> loss_type]
    /\ result' = LossValue(loss_type)
    /\ UNCHANGED <<file, data, report, record>>

\* metrics(index2label): the labels of golds and preds, handed to the
\* span-level scorer of the seqeval library, whose scores are not modelled:
\* the result kept is what the scorer is given.
Metrics(index2label) ==
    /\ op' = "metrics"
    /\ args' = [index2label |-> index2label]
    /\ result' = map_to_labels(index2label)
    /\ UNCHANGED <<file, data, report, record>>

\* get_classification_report(index2label): as metrics, the scorer's report
\* not modelled.
GetClassificationReport(index2label) ==
    /\ op' = "get_classification_report"
    /\ args' = [index2label |-> index2label]
    /\ result' = map_to_labels(index2label)
    /\ UNCHANGED <<file, data, report, record>>

IdleConll == file = NoFile /\ data = NoDict /\ report = NoDict

\* EpochStats.__init__
FreshStats ==
    /\ sizes = <<>> /\ losses = <<>> /\ ner_losses = <<>> /\ dep_losses = <<>>
    /\ probs = <<>> /\ preds = <<>> /\ golds = <<>>

\* An accumulator saved by an older run and loaded again: one batch of two
\* samples, its predictions stored flattened, one number per token.
SavedFlatStats ==
    /\ sizes = <<2>> /\ losses = <<3>> /\ ner_losses = <<1>> /\ dep_losses = <<2>>
    /\ probs = <<Bare(2), Bare(3)>>
    /\ preds = <<Bare(1), Bare(0)>>
    /\ golds = <<Bare(1), Bare(1)>>

Queries ==
    \/ \E loss_type \in LossKinds : Loss(loss_type)
    \/ \E index2label \in LabelMaps : Metrics(index2label)
    \/ \E index2label \in LabelMaps : GetClassificationReport(index2label)

StepCalls ==
    \E batch \in SeqsOver(SampleRows, MaxRecorded), l \in LossTriples :
        Step(batch, l[1], l[2], l[3])

LossStepCalls ==
    \E l \in LossTriples, batch_size \in SizeVals : LossStep(l[1], l[2], l[3], batch_size)

\* The accumulator, new or loaded, under any calls.
Init == IdleConll /\ IdleCalls /\ (FreshStats \/ SavedFlatStats)
Next == LossStepCalls \/ StepCalls \/ Queries
Spec == Init /\ [][Next]_vars

\* A new accumulator that is fed by step alone.
InitStep == IdleConll /\ IdleCalls /\ FreshStats
NextStep == StepCalls \/ Queries
SpecStep == InitStep /\ [][NextStep]_vars

----------------------------------------------------------------------------
(* Claims of the accumulator.                                              *)

RECURSIVE WeightedSum(_, _)
\* sum(loss_i * size_i)
WeightedSum(ls, ss) ==
    IF ls = <<>> THEN 0 ELSE Head(ls) * Head(ss) + WeightedSum(Tail(ls), Tail(ss))

Elements(values) == {values[i] : i \in DOMAIN values}

\* The returned (mean, min, max) is the size-weighted mean and the least and
\* the greatest of the per-batch losses of the selected kind.
IsWeightedSummary(selected) ==
    /\ result.status = "ok"
    /\ ~result.value.mean.nan
    /\ result.value.mean.num * SumSeq(sizes)
          = WeightedSum(selected, sizes) * result.value.mean.den
    /\ result.value.min \in Elements(selected)
    /\ \A x \in Elements(selected) : result.value.min <= x
    /\ result.value.max \in Elements(selected)
    /\ \A x \in Elements(selected) : x <= result.value.max

KindLosses ==
    IF args.loss_type = "ner" THEN ner_losses
    ELSE IF args.loss_type = "dep" THEN dep_losses
    ELSE losses

(* C2: after any non-empty sequence of loss_step calls, loss(kind) returns *)
(* (mean, min, max) of the selected kind's losses ('ner' the NER losses,   *)
(* 'dep' the dependency losses, anything else the combined losses), the    *)
(* mean being sum(loss_i * size_i) / sum(size_i) and min and max those of  *)
(* the per-batch losses.                                                   *)
C2_WeightedMean ==
    (op = "loss" /\ sizes # <<>>) => IsWeightedSummary(KindLosses)

\* The same where the recorded sizes do not sum to zero.
C2_WeightedMeanOfUsable ==
    (op = "loss" /\ sizes # <<>> /\ SumSeq(sizes) > 0) => IsWeightedSummary(KindLosses)

(* C5: loss on an accumulator with no usable loss history, one with no     *)
(* recorded batch or one whose recorded sizes sum to zero, fails with a    *)
(* raised error and returns no number.                                     *)
C5_NoHistoryFails ==
    (op = "loss" /\ (sizes = <<>> \/ SumSeq(sizes) = 0)) => result.status # "ok"

\* The same for the accumulator with no recorded batch alone.
C5_NoBatchFails ==
    (op = "loss" /\ sizes = <<>>) => result.status = "ValueError"

\* The positions of a sample that the mask keeps, in order.
Kept(sample) == SortedSeq({t \in DOMAIN sample : sample[t].mask = 1})

\* entry is what step is to record of a sample under value(token).
IsEntryOf(entry, sample, value(_)) ==
    /\ entry.kind = "list"
    /\ Len(entry.items) = Len(Kept(sample))
    /\ \A k \in DOMAIN entry.items : entry.items[k] = value(sample[Kept(sample)[k]])

IsBest(token, class) ==
    /\ class + 1 \in DOMAIN token.scores
    /\ \A j \in DOMAIN token.scores : token.scores[j] <= token.scores[class + 1]

\* What one call of step does to the record.
StepRecords ==
    (op' = "step" /\ sizes' # sizes) =>
        LET batch == args'.batch
            n == Len(preds)
        IN  /\ sizes' = Append(sizes, Len(batch))
            /\ Len(preds') = n + Len(batch)
            /\ SubSeq(preds', 1, n) = preds
            /\ SubSeq(golds', 1, n) = golds
            /\ SubSeq(probs', 1, n) = probs
            /\ \A i \in DOMAIN batch :
                  /\ IsEntryOf(golds'[n + i], batch[i], LAMBDA token : token.target)
                  /\ preds'[n + i].kind = "list"
                  /\ Len(preds'[n + i].items) = Len(Kept(batch[i]))
                  /\ \A k \in DOMAIN preds'[n + i].items :
                        /\ IsBest(batch[i][Kept(batch[i])[k]], preds'[n + i].items[k])
                        /\ probs'[n + i].items[k]
                              = batch[i][Kept(batch[i])[k]].scores[preds'[n + i].items[k] + 1]

SameLengths ==
    /\ Len(preds) = SumSeq(sizes)
    /\ Len(golds) = SumSeq(sizes)
    /\ Len(probs) = SumSeq(sizes)

(* C3: each step call records one batch entry whose size is the number of  *)
(* samples of the call and appends one entry per sample, in sample order,  *)
(* to preds, golds and probs; so after any sequence of step calls          *)
(* len(preds) = len(golds) = len(probs) = sum(sizes), and the entries of   *)
(* an earlier call come before those of a later call and are not changed.  *)
C3_StepAppendsPerSample == []SameLengths /\ [][StepRecords]_vars

\* Two calls of step have been made, both with samples, and a sample with
\* two kept tokens is recorded.
C3_Witness ==
    /\ op = "step" /\ Len(sizes) = 2 /\ sizes[1] > 0
    /\ Len(args.batch) = 1 /\ Len(preds) = sizes[1] + 1
    /\ \E k \in DOMAIN preds : Len(preds[k].items) = 2

AllOf(stored, kind) == \A i \in DOMAIN stored : stored[i].kind = kind

\* The label map has a label for every stored id.
Covers(index2label) ==
    \A i \in DOMAIN golds \cup DOMAIN preds :
        \A stored \in {golds, preds} :
            i \in DOMAIN stored =>
                \A k \in DOMAIN stored[i].items :
                    Lookup(index2label, stored[i].items[k]).status = "ok"

LabelOf(index2label, id) ==
    IF index2label.kind = "list" THEN index2label.at[id + 1] ELSE index2label.at[id]

\* mapped holds, entry by entry and item by item, the labels of stored.
LabelledAs(mapped, stored, index2label) ==
    /\ Len(mapped) = Len(stored)
    /\ \A i \in DOMAIN stored :
          /\ mapped[i].kind = stored[i].kind
          /\ Len(mapped[i].items) = Len(stored[i].items)
          /\ \A k \in DOMAIN stored[i].items :
                mapped[i].items[k] = LabelOf(index2label, stored[i].items[k])

Mapping == op \in {"metrics", "get_classification_report"}

(* C7: _map_to_labels takes both storage shapes, for a label map (a list   *)
(* or a dict) that covers every stored id: nested storage gives golds and  *)
(* preds of the same nested shape, the label at [sample][token] being that *)
(* of the id at [sample][token]; flat storage gives flat sequences, the    *)
(* label at i being that of the id at i; and the flat fallback is taken    *)
(* exactly when the storage holds a bare id, on which the nested mapping   *)
(* raises its type error.                                                  *)
C7_MapsBothShapes ==
    (Mapping /\ Covers(args.index2label)) =>
        /\ ((AllOf(golds, "list") /\ AllOf(preds, "list"))
             \/ (AllOf(golds, "bare") /\ AllOf(preds, "bare"))) =>
                /\ result.status = "ok"
                /\ LabelledAs(result.value.golds, golds, args.index2label)
                /\ LabelledAs(result.value.preds, preds, args.index2label)
        /\ result.fallback <=> (~AllOf(golds, "list") \/ ~AllOf(preds, "list"))

\* Labels have been mapped over flat storage, by the fallback.
C7_Witness ==
    /\ Mapping /\ Covers(args.index2label) /\ result.status = "ok"
    /\ golds # <<>> /\ AllOf(golds, "bare") /\ AllOf(preds, "bare")
    /\ result.fallback

\* Labels have been mapped over nested storage that holds a sample of two
\* tokens, by a dict.
C7_WitnessNested ==
    /\ Mapping /\ Covers(args.index2label) /\ result.status = "ok"
    /\ AllOf(golds, "list") /\ AllOf(preds, "list")
    /\ \E i \in DOMAIN golds : Len(golds[i].items) = 2
    /\ args.index2label.kind = "dict"

QueryOps == {"loss", "metrics", "get_classification_report"}

\* A query changes none of the seven sequences, and asked again at once it
\* answers the same.
QueryKeepsRecord ==
    /\ (op' \in QueryOps) => record' = record
    /\ (op' \in QueryOps /\ op' = op /\ args' = args) => result' = result

(* C10: the record is append-only and no query changes it: in any          *)
(* interleaving of loss_step and step with loss, metrics and               *)
(* get_classification_report, a query leaves sizes, losses, ner_losses,    *)
(* dep_losses, probs, preds and golds as they are, and a query repeated    *)
(* with no recording call in between returns the same result.              *)
C10_QueriesKeepRecord == [][QueryKeepsRecord]_vars

\* A query has been made on a record that holds two batches.
C10_Witness ==
    /\ op \in QueryOps /\ Len(sizes) = 2 /\ preds # <<>> /\ result.status = "ok"
    /\ losses[1] > losses[2]

----------------------------------------------------------------------------
(* Report rendering: printcr.                                              *)
(*                                                                         *)
(* A report is a dict from class label to a dict from metric name to a     *)
(* number; default tells whether it is a defaultdict, as report2dict       *)
(* returns, in which looking up a missing label adds it with no metrics.   *)
(* The table handed to tabulate is the result: one record per row, the     *)
(* empty row that printcr puts before 'macro avg' being BlankRow.          *)

Aggregates == {"macro avg", "micro avg"}

\* The labels in the order sorted() gives strings.
Alphabet == <<"LOC", "ORG", "PER", "macro avg", "micro avg">>
AlphaRank(c) == CHOOSE i \in DOMAIN Alphabet : Alphabet[i] = c

headers == <<"classes", "precision", "recall", "f1-score", "support">>

Has(rep, c) == c \in KeySet(rep)
Metric(rep, c, h) == rep.at[c][h]

Without(values, at) == SubSeq(values, 1, at - 1) \o SubSeq(values, at + 1, Len(values))

RECURSIVE SortedByKey(_, _, _)
\* sorted(values, key=key, reverse=reverse): stable, so that values of equal
\* key keep their order, also under reverse.
SortedByKey(values, key, reverse) ==
    IF values = <<>> THEN <<>>
    ELSE LET first(i) == \A j \in DOMAIN values :
                            IF reverse THEN key[values[j]] <= key[values[i]]
                            ELSE key[values[i]] <= key[values[j]]
             at == CHOOSE i \in DOMAIN values :
                      first(i) /\ \A j \in 1..(i - 1) : ~first(j)
         IN  <<values[at]>> \o SortedByKey(Without(values, at), key, reverse)

\* sorted(classes, key=lambda c: report[c]['support'], reverse=True)
\* without reverse=True.
SortedBySupport_Ascending(rep, classes) ==
    SortedByKey(classes, [c \in Elements(classes) |-> Metric(rep, c, "support")], FALSE)

\* sorted(classes, key=lambda c: report[c]['support'], reverse=True)
SortedBySupport(rep, classes) ==
    SortedByKey(classes, [c \in Elements(classes) |-> Metric(rep, c, "support")], TRUE)

\* sorted(classes)
SortedByName(classes) ==
    SortedByKey(classes, [c \in Elements(classes) |-> AlphaRank(c)], FALSE)

\* The classes printcr renders, in order; classes = NoClasses stands for the
\* default classes=None.  KeyError when a class to be sorted has no support.
NoClasses == <<"None">>

ClassRows(rep, classes, sort_by_support) ==
    LET own == SelectSeq(rep.keys, LAMBDA k : k \notin Aggregates)
        chosen ==
            IF classes # NoClasses THEN Ok(classes)
            ELSE IF ~sort_by_support THEN Ok(SortedByName(own))
            ELSE IF \E i \in DOMAIN own : "support" \notin DOMAIN rep.at[own[i]]
                 THEN Raised("KeyError")
                 ELSE Ok(SortedBySupport(rep, own))
        withMacro(cs) == IF "macro avg" \in Elements(cs) THEN cs ELSE Append(cs, "macro avg")
        withMicro(cs) == IF "micro avg" \in Elements(cs) THEN cs ELSE Append(cs, "micro avg")
    IN  IF chosen.status # "ok" THEN chosen
        ELSE Ok(withMicro(withMacro(chosen.value)))

BlankRow == [name |-> "", cells |-> <<>>]

\* The row of class c: its name, then the metrics it has, in the order of
\* the headers, precision, recall and f1-score times 100.
RowOf(c, metrics) ==
    LET present == SelectSeq(headers, LAMBDA h : h \in DOMAIN metrics)
    IN  [name |-> c,
         cells |-> [i \in DOMAIN present |->
                      IF present[i] \in {"precision", "recall", "f1-score"}
                      THEN metrics[present[i]] * 100
                      ELSE metrics[present[i]]]]

NoMetrics == [h \in {} |-> 0]

RECURSIVE Render(_, _, _)
\* The loop over the classes: the table, the report as the lookups leave it,
\* and the exception if one stopped the loop.
Render(rep, classes, table) ==
    IF classes = <<>> THEN [status |-> "ok", table |-> table, report |-> rep]
    ELSE LET c == Head(classes)
             spaced == IF c = "macro avg" THEN Append(table, BlankRow) ELSE table
         IN  IF Has(rep, c)
             THEN Render(rep, Tail(classes), Append(spaced, RowOf(c, rep.at[c])))
             ELSE IF ~rep.default
             THEN [status |-> "KeyError", table |-> spaced, report |-> rep]
             ELSE Render([rep EXCEPT !.keys = Append(rep.keys, c),
                                     !.at = [k \in KeySet(rep) \cup {c} |->
                                                IF k = c THEN NoMetrics ELSE rep.at[k]]],
                         Tail(classes), Append(spaced, RowOf(c, NoMetrics)))

\* printcr(report, classes, sort_by_support).  The appends to a list of
\* classes that the caller passed are seen by the caller too; the list is an
\* argument here and not kept.
printcr(rep, classes, sort_by_support) ==
    LET rows == ClassRows(rep, classes, sort_by_support)
    IN  IF rows.status # "ok"
        THEN [status |-> rows.status, table |-> <<>>, report |-> rep]
        ELSE Render(rep, rows.value, <<>>)

Printcr(classes, sort_by_support) ==
    LET out == printcr(report, classes, sort_by_support)
    IN  /\ op' = "printcr"
        /\ args' = [report |-> report, classes |-> classes,
                    sort_by_support |-> sort_by_support]
        /\ result' = (IF out.status = "ok" THEN Ok(out.table) ELSE Raised(out.status))
        /\ report' = out.report
        /\ UNCHANGED <<file, data, record>>

\* The reports that are rendered: up to three classes in any key order, then
\* the aggregate rows, either or both of which may be missing.
FullMetrics(support) ==
    [h \in {"precision", "recall", "f1-score", "support"} |->
        IF h = "support" THEN support ELSE 1]
OnlyScores == [h \in {"precision", "recall", "f1-score"} |-> 1]

ClassOrders ==
    {order \in SeqsOver({"LOC", "ORG", "PER"}, 3) :
        \A i, j \in DOMAIN order : i # j => order[i] # order[j]}

AggregateOrders == {<<>>, <<"macro avg">>, <<"micro avg">>, <<"macro avg", "micro avg">>}

Reports ==
    { [keys |-> order \o aggs,
       at |-> [c \in Elements(order \o aggs) |->
                 IF c \in Aggregates THEN FullMetrics(9) ELSE metrics[c]],
       default |-> default] :
        order \in ClassOrders, aggs \in AggregateOrders, default \in BOOLEAN,
        metrics \in [{"LOC", "ORG", "PER"} -> {FullMetrics(1), FullMetrics(2)}] }

ReportsOfPartial ==
    { [keys |-> <<"LOC", "PER">> \o aggs,
       at |-> [c \in Elements(<<"LOC", "PER">> \o aggs) |->
                 IF c = "PER" THEN OnlyScores ELSE FullMetrics(3)],
       default |-> TRUE] : aggs \in AggregateOrders }

ClassLists ==
    { NoClasses, <<>>, <<"LOC", "PER">>, <<"PER", "LOC">>, <<"macro avg", "LOC">>,
      <<"LOC", "micro avg", "macro avg">> }

InitReport ==
    /\ file = NoFile /\ data = NoDict
    /\ report \in Reports \cup ReportsOfPartial
    /\ IdleStats /\ IdleCalls

NextReport ==
    \E classes \in ClassLists, sort_by_support \in BOOLEAN :
        Printcr(classes, sort_by_support)

SpecReport == InitReport /\ [][NextReport]_vars

----------------------------------------------------------------------------
(* Claims of the report rendering.                                         *)

Printed == op = "printcr"
PrintedOk == Printed /\ result.status = "ok"

\* The places of the table's rows of class labels that are no aggregates,
\* and the places of the aggregate rows.
ClassPlaces(table) == {i \in DOMAIN table : table[i].name \notin Aggregates \cup {""}}
PlacesOf(table, name) == {i \in DOMAIN table : table[i].name = name}

RowHasSupport(rep, name) == name \in KeySet(rep) /\ "support" \in DOMAIN rep.at[name]

\* The rows of the classes are in descending order of support, and both
\* aggregate rows are there, after every row of a class, a blank row right
\* before 'macro avg'.
SortedThenAggregates(rep, table) ==
    /\ \A i, j \in ClassPlaces(table) :
          (i < j /\ RowHasSupport(rep, table[i].name) /\ RowHasSupport(rep, table[j].name)) =>
              rep.at[table[i].name]["support"] >= rep.at[table[j].name]["support"]
    /\ \A a \in Aggregates :
          /\ PlacesOf(table, a) # {}
          /\ \A i \in ClassPlaces(table) : \A j \in PlacesOf(table, a) : i < j
    /\ \A j \in PlacesOf(table, "macro avg") : j > 1 /\ table[j - 1] = BlankRow

\* The report has what the default rendering looks up: a support for every
\* class, and an entry for either aggregate unless it is a defaultdict.
Renderable(rep) ==
    /\ \A c \in KeySet(rep) \ Aggregates : "support" \in DOMAIN rep.at[c]
    /\ rep.default \/ Aggregates \subseteq KeySet(rep)

RowNames(table) ==
    LET named == SelectSeq(table, LAMBDA row : row # BlankRow)
    IN  [i \in DOMAIN named |-> named[i].name]

\* classes, then 'macro avg' and 'micro avg' where classes lacks them.
WithAggregates(classes) ==
    classes \o SelectSeq(<<"macro avg", "micro avg">>, LAMBDA a : a \notin Elements(classes))

=============================================================================
